---- MODULE Spec2Model ----
(***************************************************************************)
(* Model of gemini-gui's App (lib/app.js): the failed-test index, the      *)
(* accept protocol (updateReferenceImage), workspace recreation and test   *)
(* loading (initialize), and the size-delta computation.                   *)
(*                                                                         *)
(* A path is a sequence of segments.  A promise chain is modelled by the   *)
(* position (pc) of the request in the chain: the value of pc names the    *)
(* asynchronous operation that is pending, and one action completes it and *)
(* runs the next `then` callback up to the next asynchronous call.         *)
(***************************************************************************)
EXTENDS Integers, Sequences, FiniteSets, TLC

VARIABLES
    failedTests,   \* App._failedTests: the set of stored tests, one per key
    dirs,          \* directories that exist under the reference roots
    refSize,       \* reference path -> size of the file there, 0 = no file
    curSize,       \* current-capture path -> size of the file there
    req,           \* accept request -> its position in updateReferenceImage
    options,       \* App._options.browser: the ids requested on invocation
    cfgBrowsers,   \* gemini.browserIds: the ids of the configuration
    warnings,      \* console.warn lines
    ws,            \* currentDir, diffDir -> "absent", "empty" or "files"
    ini,           \* the position of initialize() and of its parallel branches
    ops,           \* filesystem and engine calls made by initialize(), in order
    suites,        \* top-level suite -> its browsers list
    tests,         \* App._tests: the tree built from the suites
    runner,        \* the position of run() and the number of runs started
    conns,         \* viewer connection -> its state in App._eventSource
    emitted,       \* the events passed to sendClientEvent, in order
    urls           \* the calls of the URL functions, each with what it returned

appVars == <<options, cfgBrowsers, warnings, ini, ops, suites, tests>>
acceptVars == <<failedTests, dirs, refSize, curSize, req>>
runVars == <<runner, conns, emitted, urls>>
vars == <<acceptVars, ws, appVars, runVars>>

----------------------------------------------------------------------------
(* Bounds *)

MaxSize == 2       \* file sizes are 1..MaxSize
MaxTime == 1       \* millisecond timestamps are 0..MaxTime

MaxCliLen == 2     \* browser ids requested on invocation
MaxRuns == 2       \* calls of run()
MaxCalls == 2      \* calls of updateReferenceImage, each with its own promise
MaxUrlCalls == 2   \* calls of the URL functions

Sizes == 1..MaxSize

\* Accept requests.  The caller serializes accepts (one in flight at a time):
\* one request slot, reused by each call once the previous one has settled.
Reqs == {1}
Times == 0..MaxTime

SuitePaths == {"suite"}
StateNames == {"plain"}
BrowserIds == {"b1", "b2"}

RefPaths == { <<"shots", "b1", "plain.png">>, <<"shots", "b2", "plain state.png">> }
CurPaths == { <<"tmp", "curr", "c1.png">>, <<"tmp", "curr", "c2.png">> }

UnknownIds == {"bx"}                  \* an id no configuration declares
TopLevelSuites == {"suiteA", "suiteB"}
WsDirs == {"currentDir", "diffDir"}

\* a test as the reporter or the viewer hands it to the App
Tests == [suite: SuitePaths, state: StateNames, browserId: BrowserIds,
          referencePath: RefPaths, currentPath: CurPaths]

NoTest == [suite |-> "", state |-> "", browserId |-> "",
           referencePath |-> <<>>, currentPath |-> <<>>]

\* a test with no reference image, as the reporter hands it to addNoReferenceTest:
\* it has no referencePath yet
NoRefTests == [suite: SuitePaths, state: StateNames, browserId: BrowserIds,
               referencePath: {<<>>}, currentPath: CurPaths]

----------------------------------------------------------------------------
(* path helpers *)

dirname(p) == SubSeq(p, 1, Len(p) - 1)

\* every directory fs.makeTree(d) makes sure exists
TreeOf(d) == { SubSeq(d, 1, n) : n \in 1..Len(d) }

----------------------------------------------------------------------------
(* lodash on lists *)

InSeq(x, s) == \E i \in 1..Len(s) : s[i] = x

RECURSIVE uniq(_)
uniq(s) ==
    IF s = <<>> THEN <<>>
    ELSE LET front == uniq(SubSeq(s, 1, Len(s) - 1))
             last == s[Len(s)]
         IN  IF InSeq(last, front) THEN front ELSE Append(front, last)

\* _.intersection(a, b): the unique values of a that b includes, in a's order
intersection(a, b) == uniq(SelectSeq(a, LAMBDA x : InSeq(x, b)))

\* _.difference(a, b): the values of a that b does not include, in a's order
difference(a, b) == SelectSeq(a, LAMBDA x : ~InSeq(x, b))

\* a wrong filter: the requested ids are taken as they are
filterBrowsersFromCli(browsersFromConfig, browsersFromCli) == browsersFromCli

filterBrowsers(browsersFromConfig, browsersFromCli) ==
    intersection(browsersFromConfig, browsersFromCli)

\* the console.warn lines of checkUnknownBrowsers; options.browser may be undefined
checkUnknownBrowsers(browsersFromConfig, opts) ==
    LET unknownBrowsers == IF opts.given THEN difference(opts.browser, browsersFromConfig)
                           ELSE <<>>
    IN  IF unknownBrowsers # <<>>
        THEN << [unknown |-> unknownBrowsers, known |-> browsersFromConfig] >>
        ELSE <<>>

----------------------------------------------------------------------------
(* FailedTestIndex (lib/common/tests-index) *)

KeyOf(t) == <<t.suite, t.state, t.browserId>>

IndexAdd(index, t) == { x \in index : KeyOf(x) # KeyOf(t) } \cup {t}

IndexHas(index, d) == \E x \in index : KeyOf(x) = KeyOf(d)

IndexFind(index, d) ==
    IF IndexHas(index, d)
    THEN CHOOSE x \in index : KeyOf(x) = KeyOf(d)
    ELSE NoTest

----------------------------------------------------------------------------
(* PathMapper *)

NoURL == [path |-> <<>>, t |-> -1]

\* App.referenceDirs: browser id -> config.forBrowser(id).screenshotsDir
referenceDirs(browserId) == <<"shots", browserId>>

\* gemini.getScreenshotPath, through App.getScreenshotPath
getScreenshotPath(suite, stateName, browserId) ==
    IF browserId = "b1" THEN <<"shots", "b1", "plain.png">>
    ELSE <<"shots", "b2", "plain state.png">>

RECURSIVE CommonLen(_, _)
CommonLen(a, b) ==
    IF a = <<>> \/ b = <<>> \/ Head(a) # Head(b) THEN 0
    ELSE 1 + CommonLen(Tail(a), Tail(b))

\* path.relative(rootDir, fullPath)
relative(rootDir, fullPath) ==
    LET k == CommonLen(rootDir, fullPath)
    IN  [i \in 1..(Len(rootDir) - k) |-> ".."] \o SubSeq(fullPath, k + 1, Len(fullPath))

\* encodeURI on one segment: a space becomes %20, the rest is kept
encodeSegment(seg) ==
    IF seg = "plain state.png" THEN "plain%20state.png" ELSE seg

encodeURI(relPath) == [i \in 1..Len(relPath) |-> encodeSegment(relPath[i])]

\* App._pathToURL: prefix + '/' + encodeURI(relPath)
pathToURL(rootDir, fullPath, prefix) ==
    [path |-> prefix \o encodeURI(relative(rootDir, fullPath)), t |-> -1]

\* a wrong stamp: the time the module was loaded, not the time of the call
appendTimestampToURLOnce(url, now) == [url EXCEPT !.t = 0]

\* App._appendTimestampToURL: URL + '?t=' + new Date().valueOf()
appendTimestampToURL(url, now) == [url EXCEPT !.t = now]

refPathToURL(fullPath, browserId, now) ==
    appendTimestampToURL(
        pathToURL(referenceDirs(browserId), fullPath, <<"ref", browserId>>), now)

\* App.currentDir and App.diffDir: temp.path('gemini-gui-curr'), ('gemini-gui-diff')
currentDir == <<"tmp", "curr">>
diffDir == <<"tmp", "diff">>

\* the files buildDiff names under diffDir
DiffPaths == { <<"tmp", "diff", "d1.png">>, <<"tmp", "diff", "d2.png">> }

currentPathToURL(fullPath, now) ==
    appendTimestampToURL(pathToURL(currentDir, fullPath, <<"curr">>), now)

diffPathToURL(fullPath) == pathToURL(diffDir, fullPath, <<"diff">>)

\* a call of one of the three functions by the viewer layer, with what it returned
UrlCall(fn, fullPath, browserId, now, url) ==
    /\ Len(urls) < MaxUrlCalls
    /\ urls' = Append(urls, [fn |-> fn, fullPath |-> fullPath, browserId |-> browserId,
                             now |-> now, url |-> url])
    /\ UNCHANGED <<acceptVars, ws, appVars, runner, conns, emitted>>

RefPathToURLCall(fullPath, browserId, now) ==
    UrlCall("refPathToURL", fullPath, browserId, now,
            refPathToURL(fullPath, browserId, now))

CurrentPathToURLCall(fullPath, now) ==
    UrlCall("currentPathToURL", fullPath, "", now, currentPathToURL(fullPath, now))

DiffPathToURLCall(fullPath, now) ==
    UrlCall("diffPathToURL", fullPath, "", now, diffPathToURL(fullPath))

----------------------------------------------------------------------------
(* Size inspector and the compression rate *)

\* compare-size: the sizes of both files by path, and size(b) - size(a)
compareSize(a, b, sizeOf) ==
    [sizes |-> [p \in {a, b} |-> sizeOf[p]], difference |-> sizeOf[b] - sizeOf[a]]

\* Math.round(n / d) for d > 0: the nearest integer, a half rounded up
MathRound(n, d) == (2 * n + d) \div (2 * d)

\* a wrong rate: the difference is divided by the size of the reference
calcCompressionOverRef(refPathImg, currPathImg, sizeOf) ==
    LET res == compareSize(refPathImg, currPathImg, sizeOf)
    IN  MathRound(res.difference * 100, res.sizes[refPathImg])

\* App._calcCompression
calcCompression(refPathImg, currPathImg, sizeOf) ==
    LET res == compareSize(refPathImg, currPathImg, sizeOf)
    IN  MathRound(res.difference * 100, res.sizes[currPathImg])

----------------------------------------------------------------------------
(* The accept protocol: App.updateReferenceImage *)

Idle == [pc |-> "idle", test |-> NoTest, refExists |-> FALSE, destExisted |-> FALSE,
         trace |-> <<>>, log |-> <<>>, result |-> NoURL, error |-> ""]

Settled(r) == req[r].pc \in {"idle", "resolved", "rejected"}

\* a wrong chain: the reference is never removed
NextStepNoDelete(step, refExists) ==
    CASE step = "makeTree"    -> "isFile"
      [] step = "isFile"      -> "optipng"
      [] step = "remove"      -> "optipng"
      [] step = "optipng"     -> "compareSize"
      [] step = "compareSize" -> "log"
      [] OTHER                -> "resolved"

\* a wrong chain: the reference is removed after the recompression, not before
NextStepDeleteAfter(step, refExists) ==
    CASE step = "makeTree"    -> "optipng"
      [] step = "optipng"     -> "isFile"
      [] step = "isFile"      -> IF refExists THEN "remove" ELSE "compareSize"
      [] step = "remove"      -> "compareSize"
      [] step = "compareSize" -> "log"
      [] OTHER                -> "resolved"

\* the promise chain of updateReferenceImage: the step that follows `step`
NextStep(step, refExists) ==
    CASE step = "makeTree"    -> "isFile"
      [] step = "isFile"      -> IF refExists THEN "remove" ELSE "optipng"
      [] step = "remove"      -> "optipng"
      [] step = "optipng"     -> "compareSize"
      [] step = "compareSize" -> "log"
      [] OTHER                -> "resolved"

\* the sizes of the files the size inspector can see
AllSizes == [p \in RefPaths \cup CurPaths |->
                IF p \in RefPaths THEN refSize[p] ELSE curSize[p]]

Reject(r, err) == [req[r] EXCEPT !.pc = "rejected", !.error = err]

\* move to the next step of the chain, recording that it was started
Advance(rec, refExists) ==
    LET n == NextStep(rec.pc, refExists)
    IN  [rec EXCEPT !.pc = n, !.refExists = refExists, !.trace = Append(rec.trace, n)]

\* a wrong handler: a descriptor the index does not know is taken as the test
updateReferenceImageUnchecked(r, testData) ==
    /\ Settled(r)
    /\ LET found == IndexFind(failedTests, testData)
           test == IF found = NoTest THEN testData ELSE found
       IN  req' = [req EXCEPT ![r] = [Idle EXCEPT !.pc = "makeTree", !.test = test,
                                                  !.trace = <<"makeTree">>]]
    /\ UNCHANGED <<failedTests, dirs, refSize, curSize, ws, appVars, runVars>>

\* a wrong handler: the paths are taken from the descriptor the viewer sent
updateReferenceImageTrusting(r, testData) ==
    /\ Settled(r)
    /\ LET test == IndexFind(failedTests, testData)
       IN  IF test = NoTest
           THEN req' = [req EXCEPT ![r] = [Idle EXCEPT !.pc = "rejected",
                                                       !.error = "No such test failed"]]
           ELSE req' = [req EXCEPT ![r] =
                          [Idle EXCEPT !.pc = "makeTree",
                                       !.test = [test EXCEPT
                                                   !.referencePath = testData.referencePath,
                                                   !.currentPath = testData.currentPath],
                                       !.trace = <<"makeTree">>]]
    /\ UNCHANGED <<failedTests, dirs, refSize, curSize, ws, appVars, runVars>>

\* updateReferenceImage(testData) up to its first asynchronous call
updateReferenceImage(r, testData) ==
    /\ Settled(r)
    /\ LET test == IndexFind(failedTests, testData)
       IN  IF test = NoTest
           THEN req' = [req EXCEPT ![r] = [Idle EXCEPT !.pc = "rejected",
                                                       !.error = "No such test failed"]]
           ELSE req' = [req EXCEPT ![r] = [Idle EXCEPT !.pc = "makeTree", !.test = test,
                                                       !.trace = <<"makeTree">>]]
    /\ UNCHANGED <<failedTests, dirs, refSize, curSize, ws, appVars, runVars>>

\* a wrong step: the directory is made as fs.makeDirectory does, which fails when
\* its parent is missing or the directory is already there
MakeTreeDoneNotRecursive(r, ok) ==
    /\ req[r].pc = "makeTree"
    /\ LET d == dirname(req[r].test.referencePath)
       IN  IF ok /\ d \notin dirs /\ TreeOf(dirname(d)) \subseteq dirs
           THEN /\ dirs' = dirs \cup {d}
                /\ req' = [req EXCEPT ![r] = Advance(req[r], FALSE)]
           ELSE /\ req' = [req EXCEPT ![r] = Reject(r, "fsError")]
                /\ UNCHANGED dirs
    /\ UNCHANGED <<failedTests, refSize, curSize, ws, appVars, runVars>>

\* fs.makeTree(path.dirname(test.referencePath)) completes: every missing directory
\* of the path is made; when it fails, the directories made before the failure stay
MakeTreeDone(r, ok) ==
    /\ req[r].pc = "makeTree"
    /\ LET d == dirname(req[r].test.referencePath)
       IN  IF ok
           THEN /\ dirs' = dirs \cup TreeOf(d)
                /\ req' = [req EXCEPT ![r] = Advance(req[r], FALSE)]
           ELSE /\ \E n \in 0..(Len(d) - 1) : dirs' = dirs \cup TreeOf(SubSeq(d, 1, n))
                /\ req' = [req EXCEPT ![r] = Reject(r, "fsError")]
    /\ UNCHANGED <<failedTests, refSize, curSize, ws, appVars, runVars>>

\* a wrong step: the answer of fs.isFile is not used, nothing is removed
IsFileDoneAssumingAbsent(r) ==
    /\ req[r].pc = "isFile"
    /\ req' = [req EXCEPT ![r] = Advance(req[r], FALSE)]
    /\ UNCHANGED <<failedTests, dirs, refSize, curSize, ws, appVars, runVars>>

\* _deleteRefImg: fs.isFile(refPathImg) answers; fs.remove is called if it exists,
\* and otherwise the chain goes on to _compressAndCopyRefImg
IsFileDone(r) ==
    /\ req[r].pc = "isFile"
    /\ LET refExists == refSize[req[r].test.referencePath] # 0
           next == Advance(req[r], refExists)
       IN  req' = [req EXCEPT ![r] =
                     IF next.pc = "optipng"
                     THEN [next EXCEPT !.destExisted = refExists]
                     ELSE next]
    /\ UNCHANGED <<failedTests, dirs, refSize, curSize, ws, appVars, runVars>>

\* a wrong step: a file that is no longer there counts as removed
RemoveDoneForgiving(r, ok) ==
    /\ req[r].pc = "remove"
    /\ LET p == req[r].test.referencePath
       IN  IF ok
           THEN /\ refSize' = [refSize EXCEPT ![p] = 0]
                /\ req' = [req EXCEPT ![r] =
                             [Advance(req[r], TRUE) EXCEPT !.destExisted = FALSE]]
           ELSE /\ req' = [req EXCEPT ![r] = Reject(r, "fsError")]
                /\ UNCHANGED refSize
    /\ UNCHANGED <<failedTests, dirs, curSize, ws, appVars, runVars>>

\* fs.remove(refPathImg) completes; then execFile(optipng, ...) is called
RemoveDone(r, ok) ==
    /\ req[r].pc = "remove"
    /\ LET p == req[r].test.referencePath
       IN  IF ok /\ refSize[p] # 0
           THEN /\ refSize' = [refSize EXCEPT ![p] = 0]
                /\ req' = [req EXCEPT ![r] =
                             [Advance(req[r], TRUE) EXCEPT !.destExisted = FALSE]]
           ELSE /\ req' = [req EXCEPT ![r] = Reject(r, "fsError")]
                /\ UNCHANGED refSize
    /\ UNCHANGED <<failedTests, dirs, curSize, ws, appVars, runVars>>

\* optipng exits with status zero: nothing went wrong in the process (ok), the
\* output file does not exist (it refuses to overwrite one) and its directory does
OptipngSucceeds(r, ok) ==
    LET p == req[r].test.referencePath
    IN  ok /\ refSize[p] = 0 /\ dirname(p) \in dirs

\* a wrong handler: the exit status of optipng is not looked at
OptipngDoneUnchecked(r, ok, size) ==
    /\ req[r].pc = "optipng"
    /\ LET p == req[r].test.referencePath
       IN  /\ refSize' = IF OptipngSucceeds(r, ok) THEN [refSize EXCEPT ![p] = size]
                         ELSE refSize
           /\ req' = [req EXCEPT ![r] = Advance(req[r], req[r].refExists)]
    /\ UNCHANGED <<failedTests, dirs, curSize, ws, appVars, runVars>>

\* a wrong handler: when the recompression fails, the reference that was removed
\* is put back
OptipngDoneRestoring(r, ok, size) ==
    /\ req[r].pc = "optipng"
    /\ LET p == req[r].test.referencePath
       IN  IF OptipngSucceeds(r, ok)
           THEN /\ refSize' = [refSize EXCEPT ![p] = size]
                /\ req' = [req EXCEPT ![r] = Advance(req[r], req[r].refExists)]
           ELSE /\ req' = [req EXCEPT ![r] = Reject(r, "compressionError")]
                /\ refSize' = IF req[r].refExists /\ refSize[p] = 0
                              THEN [refSize EXCEPT ![p] = 1]
                              ELSE refSize
    /\ UNCHANGED <<failedTests, dirs, curSize, ws, appVars, runVars>>

\* optipng -out refPathImg currPathImg exits: on success the recompressed capture
\* is at refPathImg; q.nfcall rejects on an error
OptipngDone(r, ok, size) ==
    /\ req[r].pc = "optipng"
    /\ LET p == req[r].test.referencePath
       IN  IF OptipngSucceeds(r, ok)
           THEN /\ refSize' = [refSize EXCEPT ![p] = size]
                /\ req' = [req EXCEPT ![r] = Advance(req[r], req[r].refExists)]
           ELSE /\ req' = [req EXCEPT ![r] = Reject(r, "compressionError")]
                /\ UNCHANGED refSize
    /\ UNCHANGED <<failedTests, dirs, curSize, ws, appVars, runVars>>

\* a wrong handler: an accepted test is taken out of the index
CompareSizeDonePurging(r, ok, now) ==
    /\ req[r].pc = "compareSize"
    /\ LET test == req[r].test
       IN  IF ok /\ refSize[test.referencePath] # 0
           THEN LET rate == calcCompression(test.referencePath, test.currentPath, AllSizes)
                    logged == Advance(req[r], req[r].refExists)
                IN  req' = [req EXCEPT ![r] =
                              [logged EXCEPT
                                 !.pc = NextStep(logged.pc, logged.refExists),
                                 !.log = Append(logged.log,
                                                [path |-> test.referencePath, rate |-> rate]),
                                 !.result = refPathToURL(test.referencePath,
                                                         test.browserId, now)]]
           ELSE req' = [req EXCEPT ![r] = Reject(r, "fsError")]
    /\ failedTests' = IF ok /\ refSize[req[r].test.referencePath] # 0
                      THEN { x \in failedTests : KeyOf(x) # KeyOf(req[r].test) }
                      ELSE failedTests
    /\ UNCHANGED <<dirs, refSize, curSize, ws, appVars, runVars>>

\* compareSize answers; the rate is computed, the line is logged and the request
\* resolves with the reference URL
CompareSizeDone(r, ok, now) ==
    /\ req[r].pc = "compareSize"
    /\ LET test == req[r].test
       IN  IF ok /\ refSize[test.referencePath] # 0
           THEN LET rate == calcCompression(test.referencePath, test.currentPath, AllSizes)
                    logged == Advance(req[r], req[r].refExists)
                IN  req' = [req EXCEPT ![r] =
                              [logged EXCEPT
                                 !.pc = NextStep(logged.pc, logged.refExists),
                                 !.log = Append(logged.log,
                                                [path |-> test.referencePath, rate |-> rate]),
                                 !.result = refPathToURL(test.referencePath,
                                                         test.browserId, now)]]
           ELSE req' = [req EXCEPT ![r] = Reject(r, "fsError")]
    /\ UNCHANGED <<failedTests, dirs, refSize, curSize, ws, appVars, runVars>>

----------------------------------------------------------------------------
(* The reporter's calls *)

\* a wrong add: the earlier failure of the same key is kept beside the new one
addFailedTestKeepAll(test) ==
    /\ failedTests' = failedTests \cup {test}
    /\ UNCHANGED <<dirs, refSize, curSize, req, ws, appVars, runVars>>

addFailedTest(test) ==
    /\ failedTests' = IndexAdd(failedTests, test)
    /\ UNCHANGED <<dirs, refSize, curSize, req, ws, appVars, runVars>>

\* a wrong add: the test is stored as the reporter gave it
addNoReferenceTestAsIs(test) == addFailedTest(test)

addNoReferenceTest(test) ==
    addFailedTest([test EXCEPT !.referencePath =
                      getScreenshotPath(test.suite, test.state, test.browserId)])

\* buildDiff(failureReport): a fresh name under diffDir, the report saves its diff
\* there, and the diff URL is returned
buildDiff(ok) ==
    /\ IF ok /\ ws["diffDir"] # "absent"
       THEN ws' = [ws EXCEPT !["diffDir"] = "files"]
       ELSE UNCHANGED ws
    /\ UNCHANGED <<acceptVars, appVars, runVars>>

----------------------------------------------------------------------------
(* EventChannel (lib/event-source), behind addClient and sendClientEvent *)

MaxEvents == 3     \* events emitted

Conns == {"v1", "v2"}

\* a connection the App was never given
Unconnected == [registered |-> FALSE, alive |-> TRUE, since |-> 0, received |-> <<>>]

EventNames == {"beginState", "endTest"}

\* EventSource.addConnection: the connection joins the registry of sinks
AddConnection(registry, c) ==
    [registry EXCEPT ![c] = [@ EXCEPT !.registered = TRUE, !.since = Len(emitted)]]

\* EventSource.emit: the event is written to every sink of the registry; a sink
\* whose connection is dead is taken out and gets nothing
Emit(registry, n, event) ==
    [c \in DOMAIN registry |->
        IF ~registry[c].registered THEN registry[c]
        ELSE IF registry[c].alive
             THEN [registry[c] EXCEPT !.received = Append(@, <<n, event>>)]
             ELSE [registry[c] EXCEPT !.registered = FALSE]]

\* a wrong addClient: the new connection takes the place of the registered ones
addClientReplacing(c) ==
    /\ ~conns[c].registered /\ conns[c].alive
    /\ conns' = AddConnection([o \in DOMAIN conns |->
                                 [conns[o] EXCEPT !.registered = FALSE]], c)
    /\ UNCHANGED <<acceptVars, ws, appVars, runner, emitted, urls>>

\* addClient(connection), called once for a connection when the viewer opens it
addClient(c) ==
    /\ ~conns[c].registered /\ conns[c].alive
    /\ conns[c].received = <<>>
    /\ conns' = AddConnection(conns, c)
    /\ UNCHANGED <<acceptVars, ws, appVars, runner, emitted, urls>>

\* sendClientEvent(event, data)
sendClientEvent(event) ==
    /\ Len(emitted) < MaxEvents
    /\ emitted' = Append(emitted, event)
    /\ conns' = Emit(conns, Len(emitted) + 1, event)
    /\ UNCHANGED <<acceptVars, ws, appVars, runner, urls>>

\* the viewer goes away: its connection is closed
Disconnect(c) ==
    /\ conns[c].alive
    /\ conns' = [conns EXCEPT ![c].alive = FALSE]
    /\ UNCHANGED <<acceptVars, ws, appVars, runner, emitted, urls>>

----------------------------------------------------------------------------
(* run(specificTests) *)

NotRunning == [state |-> "ready", count |-> 0, scope |-> {}]

\* the tests a run executes: the whole collection, or the tests the caller names
Scopes == {BrowserIds} \cup { {b} : b \in BrowserIds }

\* Runner.create(collection, specificTests)
RunnerCreate(specificTests) == specificTests

\* run(specificTests): a runner is created and started on the loaded collection;
\* App._failedTests is not assigned
run(specificTests) ==
    /\ ini.pc = "ready"
    /\ runner.state = "ready"
    /\ runner.count < MaxRuns
    /\ runner' = [state |-> "running", count |-> runner.count + 1,
                  scope |-> RunnerCreate(specificTests)]
    /\ UNCHANGED <<acceptVars, ws, appVars, conns, emitted, urls>>

\* the promise of gemini.test settles: the run is over
RunDone ==
    /\ runner.state = "running"
    /\ runner' = [runner EXCEPT !.state = "ready"]
    /\ UNCHANGED <<acceptVars, ws, appVars, conns, emitted, urls>>

\* the reporter's calls while the engine runs the tests of the scope
Reports(test) == runner.state = "running" /\ test.browserId \in runner.scope

----------------------------------------------------------------------------
(* initialize(): _recreateTmpDirs, then _readTests *)

NoError == <<>>

New == [pc |-> "new",
        rm |-> [d \in WsDirs |-> "none"],
        mk |-> [d \in WsDirs |-> "none"],
        error |-> NoError]

Unloaded == [loaded |-> FALSE, suites |-> [s \in TopLevelSuites |-> <<>>]]

\* a wrong join: the directories are made as soon as one removal is over
AnyRemoved(rec) == rec.pc = "removing" /\ \E d \in WsDirs : rec.rm[d] = "done"

\* q.all of the two removals has resolved: its `then` calls both makeDirectory
AllRemoved(rec) == rec.pc = "removing" /\ \A d \in WsDirs : rec.rm[d] = "done"

ThenMake(rec) ==
    IF AllRemoved(rec)
    THEN [rec EXCEPT !.pc = "making", !.mk = [d \in WsDirs |-> "makeDirectory"]]
    ELSE rec

MakeOps(rec) ==
    IF AllRemoved(rec)
    THEN << <<"makeDirectory", "currentDir">>, <<"makeDirectory", "diffDir">> >>
    ELSE <<>>

\* a wrong chain: a rejection is swallowed
FailWithSwallowed(rec, phase, err) == rec

\* q.all rejects with the first rejection; a later one changes nothing
FailWith(rec, phase, err) ==
    IF rec.pc = phase THEN [rec EXCEPT !.pc = "failed", !.error = err] ELSE rec

initialize ==
    /\ ini.pc = "new"
    /\ ini' = [ini EXCEPT !.pc = "removing", !.rm = [d \in WsDirs |-> "exists"]]
    /\ ops' = ops \o << <<"exists", "currentDir">>, <<"exists", "diffDir">> >>
    /\ UNCHANGED <<acceptVars, ws, options, cfgBrowsers, warnings, suites, tests, runVars>>

\* removeTreeIfExists: fs.exists(path) answers; fs.removeTree is called if it exists
ExistsDone(d) ==
    /\ ini.rm[d] = "exists"
    /\ LET exists == ws[d] # "absent"
           rec == [ini EXCEPT !.rm[d] = IF exists THEN "removeTree" ELSE "done"]
       IN  /\ ini' = ThenMake(rec)
           /\ ops' = ops \o (IF exists THEN << <<"removeTree", d>> >> ELSE <<>>)
                         \o MakeOps(rec)
    /\ UNCHANGED <<acceptVars, ws, options, cfgBrowsers, warnings, suites, tests, runVars>>

RemoveTreeDone(d, ok) ==
    /\ ini.rm[d] = "removeTree"
    /\ IF ok
       THEN LET rec == [ini EXCEPT !.rm[d] = "done"]
            IN  /\ ws' = [ws EXCEPT ![d] = "absent"]
                /\ ini' = ThenMake(rec)
                /\ ops' = ops \o MakeOps(rec)
       ELSE /\ ini' = FailWith([ini EXCEPT !.rm[d] = "failed"], "removing",
                               <<"removeTree", d>>)
            /\ UNCHANGED <<ws, ops>>
    /\ UNCHANGED <<acceptVars, options, cfgBrowsers, warnings, suites, tests, runVars>>

\* fs.makeDirectory(path) completes; when both have, _readTests calls gemini.readTests
MakeDirectoryDone(d, ok) ==
    /\ ini.mk[d] = "makeDirectory"
    /\ IF ok /\ ws[d] = "absent"
       THEN LET rec == [ini EXCEPT !.mk[d] = "done"]
                all == rec.pc = "making" /\ \A e \in WsDirs : rec.mk[e] = "done"
            IN  /\ ws' = [ws EXCEPT ![d] = "empty"]
                /\ ini' = IF all THEN [rec EXCEPT !.pc = "readTests"] ELSE rec
                /\ ops' = IF all THEN Append(ops, <<"readTests", "">>) ELSE ops
       ELSE /\ ini' = FailWith([ini EXCEPT !.mk[d] = "failed"], "making",
                               <<"makeDirectory", d>>)
            /\ UNCHANGED <<ws, ops>>
    /\ UNCHANGED <<acceptVars, options, cfgBrowsers, warnings, suites, tests, runVars>>

\* the suites' browsers after the filtering step of _readTests
FilteredSuites(all, opts) ==
    IF ~opts.given THEN all
    ELSE [s \in DOMAIN all |-> filterBrowsers(all[s], opts.browser)]

\* new Tests(app, collection): the tree of the collection's suites
TestsData(all) == [loaded |-> TRUE, suites |-> all]

\* a wrong order: the tree is built from the suites as read, then they are filtered
ReadTestsDoneTreeFirst(ok) ==
    /\ ini.pc = "readTests"
    /\ IF ok
       THEN /\ tests' = TestsData(suites)
            /\ suites' = FilteredSuites(suites, options)
            /\ ini' = [ini EXCEPT !.pc = "ready"]
       ELSE /\ ini' = FailWith(ini, "readTests", <<"readTests", "">>)
            /\ UNCHANGED <<suites, tests>>
    /\ UNCHANGED <<acceptVars, ws, options, cfgBrowsers, warnings, ops, runVars>>

\* gemini.readTests answers; the suites are filtered and the tree is built
ReadTestsDone(ok) ==
    /\ ini.pc = "readTests"
    /\ IF ok
       THEN /\ suites' = FilteredSuites(suites, options)
            /\ tests' = TestsData(suites')
            /\ ini' = [ini EXCEPT !.pc = "ready"]
       ELSE /\ ini' = FailWith(ini, "readTests", <<"readTests", "">>)
            /\ UNCHANGED <<suites, tests>>
    /\ UNCHANGED <<acceptVars, ws, options, cfgBrowsers, warnings, ops, runVars>>

\* getTests(): resolves with this._tests.data
getTests == tests

----------------------------------------------------------------------------
(* The inputs of a construction *)

SeqsUpTo(S, n) == UNION { [1..k -> S] : k \in 0..n }

NoDup(s) == \A i, j \in 1..Len(s) : s[i] = s[j] => i = j

\* the ids of a configuration: its keys, each once
CfgLists == { s \in SeqsUpTo(BrowserIds, Cardinality(BrowserIds)) : NoDup(s) }

\* the ids requested on invocation: any ids, repeated or unknown ones included
CliLists == SeqsUpTo(BrowserIds \cup UnknownIds, MaxCliLen)

AllOptions == { [given |-> FALSE, browser |-> <<>>] }
                 \cup { [given |-> TRUE, browser |-> b] : b \in CliLists }

\* a suite runs in browsers of the configuration, in the configuration's order
SubLists(cfg) == { s \in SeqsUpTo({ cfg[i] : i \in 1..Len(cfg) }, Len(cfg)) :
                     \E f \in [1..Len(s) -> 1..Len(cfg)] :
                        /\ \A i \in 1..Len(s) : cfg[f[i]] = s[i]
                        /\ \A i, j \in 1..Len(s) : i < j => f[i] < f[j] }

----------------------------------------------------------------------------

\* no run started, no viewer connected, no event emitted, no URL asked for
Quiet ==
    /\ runner = NotRunning
    /\ conns = [c \in Conns |-> Unconnected]
    /\ emitted = <<>>
    /\ urls = <<>>

\* an App constructed and initialized on a configuration of two browsers, with no
\* ids requested on invocation
Init ==
    /\ failedTests = {}
    /\ refSize \in [RefPaths -> 0..MaxSize]
    /\ dirs = UNION { TreeOf(dirname(p)) : p \in { q \in RefPaths : refSize[q] # 0 } }
    /\ curSize = [p \in CurPaths |-> IF p = <<"tmp", "curr", "c1.png">> THEN 1 ELSE MaxSize]
    /\ req = [r \in Reqs |-> Idle]
    /\ options = [given |-> FALSE, browser |-> <<>>]
    /\ cfgBrowsers = <<"b1", "b2">>
    /\ warnings = checkUnknownBrowsers(cfgBrowsers, options)
    /\ ws = [d \in WsDirs |-> "empty"]
    /\ ini = [New EXCEPT !.pc = "ready",
                         !.rm = [d \in WsDirs |-> "done"],
                         !.mk = [d \in WsDirs |-> "done"]]
    /\ ops = << <<"exists", "currentDir">>, <<"exists", "diffDir">>,
                <<"makeDirectory", "currentDir">>, <<"makeDirectory", "diffDir">>,
                <<"readTests", "">> >>
    /\ suites = [s \in TopLevelSuites |-> cfgBrowsers]
    /\ tests = TestsData(suites)
    /\ Quiet

Next ==
    \/ \E t \in Tests : addFailedTest(t)
    \/ \E t \in NoRefTests : addNoReferenceTest(t)
    \/ \E ok \in BOOLEAN : buildDiff(ok)
    \/ \E r \in DOMAIN req, d \in Tests : updateReferenceImage(r, d)
    \/ \E r \in DOMAIN req, ok \in BOOLEAN : MakeTreeDone(r, ok)
    \/ \E r \in DOMAIN req : IsFileDone(r)
    \/ \E r \in DOMAIN req, ok \in BOOLEAN : RemoveDone(r, ok)
    \/ \E r \in DOMAIN req, ok \in BOOLEAN, size \in Sizes : OptipngDone(r, ok, size)
    \/ \E r \in DOMAIN req, ok \in BOOLEAN, now \in Times : CompareSizeDone(r, ok, now)

Spec == Init /\ [][Next]_vars

\* an App just constructed, on any configuration and invocation, over a workspace
\* whose directories exist with files in them or do not exist
InitApp ==
    /\ failedTests = {}
    /\ refSize = [p \in RefPaths |-> 0]
    /\ dirs = {}
    /\ curSize = [p \in CurPaths |-> 1]
    /\ req = [r \in Reqs |-> Idle]
    /\ options \in AllOptions
    /\ cfgBrowsers \in CfgLists
    /\ warnings = checkUnknownBrowsers(cfgBrowsers, options)
    /\ ws \in [WsDirs -> {"absent", "files"}]
    /\ ini = New
    /\ ops = <<>>
    /\ suites \in [TopLevelSuites -> SubLists(cfgBrowsers)]
    /\ tests = Unloaded
    /\ Quiet

NextApp ==
    \/ initialize
    \/ \E d \in WsDirs : ExistsDone(d)
    \/ \E d \in WsDirs, ok \in BOOLEAN : RemoveTreeDone(d, ok)
    \/ \E d \in WsDirs, ok \in BOOLEAN : MakeDirectoryDone(d, ok)
    \/ \E ok \in BOOLEAN : ReadTestsDone(ok)

SpecApp == InitApp /\ [][NextApp]_vars

----------------------------------------------------------------------------
(* Properties of the accept protocol, under Spec *)

InFlight(r) == ~Settled(r)

Before(tr, a, b) == \E i, j \in 1..Len(tr) : i < j /\ tr[i] = a /\ tr[j] = b

\* the calls of a whole accept, in order; the removal is there iff the file existed
FullTrace(refExists) ==
    IF refExists
    THEN <<"makeTree", "isFile", "remove", "optipng", "compareSize", "log">>
    ELSE <<"makeTree", "isFile", "optipng", "compareSize", "log">>

IsPrefix(a, b) == Len(a) <= Len(b) /\ SubSeq(b, 1, Len(a)) = a

\* C1: updateReferenceImage on a descriptor whose key was never added rejects with
\* 'No such test failed'; the call and the rejected request start no filesystem
\* operation (no makeTree, no remove, no optipng), and the directories, the
\* reference files and the failed-test index are left as they were.
C1_NotFoundRejects ==
    /\ [](\A r \in DOMAIN req :
            req[r].error = "No such test failed"
                => req[r].pc = "rejected" /\ req[r].trace = <<>>)
    /\ [][\A r \in DOMAIN req, d \in Tests :
            (~(\E x \in failedTests : KeyOf(x) = KeyOf(d)) /\ updateReferenceImage(r, d))
                => /\ req'[r].pc = "rejected"
                   /\ req'[r].error = "No such test failed"
                   /\ req'[r].trace = <<>>
                   /\ dirs' = dirs /\ refSize' = refSize /\ ws' = ws
                   /\ failedTests' = failedTests]_vars

\* a request rejected as not found while another key is in the index and a
\* reference file exists
C1_Witness ==
    /\ req[1].error = "No such test failed"
    /\ failedTests # {}
    /\ \E p \in RefPaths : refSize[p] # 0

\* C2: when recompression is invoked by a request that found its reference file
\* present, the removal of that file is the call that just completed (remove comes
\* right before optipng) and the destination does not exist at that moment.
C2_DeleteBeforeRecompress ==
    [][\A r \in DOMAIN req :
          (req'[r].pc = "optipng" /\ req[r].pc # "optipng" /\ req'[r].refExists)
              => /\ req[r].pc = "remove"
                 /\ refSize[req[r].test.referencePath] # 0
                 /\ refSize'[req'[r].test.referencePath] = 0
                 /\ req'[r].trace = <<"makeTree", "isFile", "remove", "optipng">>
                 /\ ~req'[r].destExisted]_vars

\* recompression running for a request whose reference file existed and was removed
C2_Witness ==
    /\ req[1].pc = "optipng"
    /\ req[1].refExists
    /\ Before(req[1].trace, "remove", "optipng")
    /\ refSize[req[1].test.referencePath] = 0

\* C3: the calls of an accept follow the order makeTree, isFile, remove (iff the
\* file existed), optipng, compareSize, log, one pending at a time; the tree exists
\* before the removal starts, the recompressed file before the sizes are compared;
\* a resolved request made all of them, logged exactly one line naming its
\* reference path and the rate, and only a resolved request carries a URL, the
\* cache-busted reference URL of the stored test's referencePath and browserId.
C3_StepsInOrder ==
    \A r \in DOMAIN req :
        LET q == req[r]
        IN  /\ InFlight(r) =>
                /\ q.trace # <<>> /\ q.trace[Len(q.trace)] = q.pc
                /\ \E b \in BOOLEAN : IsPrefix(q.trace, FullTrace(b))
                /\ q.pc # "makeTree" => dirname(q.test.referencePath) \in dirs
                /\ q.pc = "compareSize" => refSize[q.test.referencePath] # 0
                /\ q.log = <<>>
            /\ q.pc # "resolved" => q.result = NoURL
            /\ q.pc = "resolved" =>
                /\ q.trace = FullTrace(q.refExists)
                /\ Len(q.log) = 1
                /\ q.log[1].path = q.test.referencePath
                /\ q.log[1].rate \in Int
                /\ q.result.t \in Times
                /\ q.result.path =
                     <<"ref", q.test.browserId>>
                        \o encodeURI(relative(<<"shots", q.test.browserId>>,
                                              q.test.referencePath))

\* a resolved accept that had to remove the old reference
C3_Witness ==
    /\ req[1].pc = "resolved"
    /\ req[1].refExists
    /\ req[1].result # NoURL

\* C4: a recompression that fails rejects the request with the compression error
\* and writes nothing; such a request compared no sizes, logged no line and
\* carries no URL; the App then accepts further calls.
C4_CompressionFailure ==
    /\ [](\A r \in DOMAIN req :
            req[r].error = "compressionError"
                => /\ req[r].pc = "rejected"
                   /\ ~InSeq("compareSize", req[r].trace)
                   /\ ~InSeq("log", req[r].trace)
                   /\ req[r].log = <<>>
                   /\ req[r].result = NoURL
                   /\ ENABLED (\E d \in Tests : updateReferenceImage(r, d))
                   /\ ENABLED (\E t \in Tests : addFailedTest(t)))
    /\ [][\A r \in DOMAIN req, ok \in BOOLEAN, size \in Sizes :
            (OptipngDone(r, ok, size) /\ ~OptipngSucceeds(r, ok))
                => /\ req'[r].pc = "rejected"
                   /\ req'[r].error = "compressionError"
                   /\ refSize' = refSize]_vars

\* a request rejected by a failed recompression of a reference that existed
C4_Witness ==
    /\ req[1].pc = "rejected"
    /\ req[1].error = "compressionError"
    /\ req[1].refExists

\* C9: addFailedTest(t) makes every descriptor with t's suite path, state name and
\* browser id, whatever its other fields, resolve to t, the entries of the other
\* keys resolving as before; the index holds one entry per key, changes only by an
\* add, and updateReferenceImage works on the entry the index holds at the call, so
\* on the referencePath and currentPath of the last failure added for the key.
C9_LastWriteWins ==
    /\ [](\A x, y \in failedTests : KeyOf(x) = KeyOf(y) => x = y)
    /\ [][/\ failedTests' # failedTests =>
                /\ \E t \in failedTests' : addFailedTest(t)
                /\ \A t \in failedTests' \ failedTests :
                      addFailedTest(t) =>
                          \A d \in Tests :
                              IF d.suite = t.suite /\ d.state = t.state
                                                   /\ d.browserId = t.browserId
                              THEN IndexFind(failedTests', d) = t
                              ELSE IndexFind(failedTests', d) = IndexFind(failedTests, d)
          /\ \A r \in DOMAIN req :
                req'[r] # req[r] =>
                    \A d \in Tests :
                        (updateReferenceImage(r, d) /\ IndexHas(failedTests, d))
                            => /\ req'[r].test \in failedTests
                               /\ KeyOf(req'[r].test) = KeyOf(d)
                               /\ req'[r].pc = "makeTree"]_vars

\* an accept in flight on an earlier failure of a key while the index already
\* holds a later failure of that key, with other paths
C9_Witness ==
    /\ InFlight(1)
    /\ \E x \in failedTests :
          /\ KeyOf(x) = KeyOf(req[1].test)
          /\ x.referencePath # req[1].test.referencePath
          /\ x.currentPath # req[1].test.currentPath
    /\ Cardinality(failedTests) = 2

\* C10: no step takes a key out of the failed-test index; the key of a resolved
\* accept is still in it, and a further updateReferenceImage on that key is not
\* rejected as not found.
C10_EntriesNeverRemoved ==
    /\ [](\A r \in DOMAIN req :
            req[r].pc = "resolved" => IndexHas(failedTests, req[r].test))
    /\ [][/\ \A x \in failedTests : \E y \in failedTests' : KeyOf(y) = KeyOf(x)
          /\ \A r \in DOMAIN req, d \in Tests :
                (req[r].pc = "resolved" /\ KeyOf(d) = KeyOf(req[r].test)
                                        /\ updateReferenceImage(r, d))
                    => req'[r].pc = "makeTree"]_vars

\* a resolved accept, after a diff was built, with its key still in the index
C10_Witness ==
    /\ req[1].pc = "resolved"
    /\ ws["diffDir"] = "files"
    /\ IndexHas(failedTests, req[1].test)

\* C16: addNoReferenceTest(test) stores the test with referencePath set to
\* getScreenshotPath(test.suite, test.state.name, test.browserId), so every entry
\* of the index carries a reference path; updateReferenceImage works on the stored
\* entry, and its recompression writes at the entry's referencePath and nowhere
\* else.
C16_NoReferencePath ==
    /\ [](\A x \in failedTests : x.referencePath \in RefPaths)
    /\ [][/\ failedTests' # failedTests =>
                \A t \in NoRefTests :
                    addNoReferenceTest(t) =>
                        LET e == IndexFind(failedTests', t)
                        IN  /\ e.referencePath =
                                  getScreenshotPath(t.suite, t.state, t.browserId)
                            /\ e.currentPath = t.currentPath
                            /\ IndexHas(failedTests', t)
          /\ \A r \in DOMAIN req :
                req'[r] # req[r] =>
                    /\ \A d \in Tests \cup NoRefTests :
                          (updateReferenceImage(r, d) /\ IndexHas(failedTests, d))
                              => req'[r].test = IndexFind(failedTests, d)
                    /\ \A p \in RefPaths :
                          (req[r].pc = "optipng" /\ refSize'[p] # refSize[p])
                              => p = req[r].test.referencePath /\ refSize'[p] # 0]_vars

\* an accept resolved on a test that had no reference image: the file is now at
\* the path getScreenshotPath gives for its key
C16_Witness ==
    /\ req[1].pc = "resolved"
    /\ ~req[1].refExists
    /\ req[1].test.referencePath =
          getScreenshotPath(req[1].test.suite, req[1].test.state, req[1].test.browserId)
    /\ refSize[req[1].test.referencePath] # 0
    /\ req[1].result.path = <<"ref", req[1].test.browserId>>
                               \o encodeURI(<<req[1].test.referencePath[3]>>)

\* C20: when the reference file existed at the call and the recompression then
\* fails, the request is rejected with the compression error and there is no file
\* at the reference path: the removal is not undone, then or later, and the
\* directory tree stays.
C20_NoRollback ==
    /\ [](\A r \in DOMAIN req :
            (req[r].pc = "rejected" /\ req[r].error = "compressionError"
                                   /\ req[r].refExists)
                => /\ refSize[req[r].test.referencePath] = 0
                   /\ req[r].trace = <<"makeTree", "isFile", "remove", "optipng">>
                   /\ dirname(req[r].test.referencePath) \in dirs
                   /\ req[r].result = NoURL)
    /\ [][\A r \in DOMAIN req, size \in Sizes :
            (req[r].refExists /\ OptipngDone(r, FALSE, size))
                => /\ req'[r].pc = "rejected"
                   /\ refSize'[req[r].test.referencePath] = 0
                   /\ dirs' = dirs]_vars

\* an accept rejected by the recompression after it removed the reference: no
\* file at the reference path, in a directory that is there
C20_Witness ==
    /\ req[1].pc = "rejected"
    /\ req[1].error = "compressionError"
    /\ InSeq("remove", req[1].trace)
    /\ refSize[req[1].test.referencePath] = 0
    /\ dirname(req[1].test.referencePath) \in dirs

----------------------------------------------------------------------------
(* The compression rate, under SpecCalc *)

MaxCalcSize == 6

\* the sizes compared: the small ones, and those of the documented examples
CalcSizes == (1..MaxCalcSize) \cup {200, 201, 750, 1000, 1001, 15000, 30000}

\* an accept whose recompression has just succeeded, for any two sizes
InitCalc ==
    \E t \in Tests, originalSize \in CalcSizes, recompressedSize \in CalcSizes :
        /\ failedTests = {t}
        /\ refSize = [p \in RefPaths |->
                        IF p = t.referencePath THEN recompressedSize ELSE 0]
        /\ dirs = TreeOf(dirname(t.referencePath))
        /\ curSize = [p \in CurPaths |-> IF p = t.currentPath THEN originalSize ELSE 1]
        /\ req = [r \in Reqs |->
                    [Idle EXCEPT !.pc = "compareSize", !.test = t,
                                 !.trace = <<"makeTree", "isFile", "optipng",
                                             "compareSize">>]]
            /\ options = [given |-> FALSE, browser |-> <<>>]
        /\ cfgBrowsers = <<"b1", "b2">>
        /\ warnings = checkUnknownBrowsers(cfgBrowsers, options)
        /\ ws = [d \in WsDirs |-> "empty"]
        /\ ini = [New EXCEPT !.pc = "ready",
                             !.rm = [d \in WsDirs |-> "done"],
                             !.mk = [d \in WsDirs |-> "done"]]
        /\ ops = << <<"exists", "currentDir">>, <<"exists", "diffDir">>,
                    <<"makeDirectory", "currentDir">>, <<"makeDirectory", "diffDir">>,
                    <<"readTests", "">> >>
        /\ suites = [s \in TopLevelSuites |-> cfgBrowsers]
        /\ tests = TestsData(suites)
        /\ Quiet

NextCalc ==
    \E r \in DOMAIN req, ok \in BOOLEAN, now \in Times : CompareSizeDone(r, ok, now)

SpecCalc == InitCalc /\ [][NextCalc]_vars

\* the rate a resolved accept logged, and the sizes it compared
Reported(r) == req[r].log[1].rate
OriginalSize(r) == curSize[req[r].test.currentPath]
RecompressedSize(r) == refSize[req[r].test.referencePath]

\* p is (originalSize - recompressedSize) * 100 / originalSize rounded to the
\* nearest integer, a half going up as Math.round does
IsRounded(p, originalSize, recompressedSize) ==
    LET n == (originalSize - recompressedSize) * 100
    IN  /\ 2 * (n - p * originalSize) < originalSize
        /\ 2 * (p * originalSize - n) <= originalSize

Examples(r) ==
    /\ (OriginalSize(r) = 30000 /\ RecompressedSize(r) = 15000) => Reported(r) = 50
    /\ (OriginalSize(r) = 750 /\ RecompressedSize(r) = 1000) => Reported(r) = -33

\* C5 as stated: the reported percentage is the rounded quotient, and it is
\* negative whenever recompression increased the size.
C5_AsStated ==
    \A r \in DOMAIN req :
        req[r].pc = "resolved" =>
            /\ IsRounded(Reported(r), OriginalSize(r), RecompressedSize(r))
            /\ Examples(r)
            /\ RecompressedSize(r) > OriginalSize(r) => Reported(r) < 0

\* C5, amended: the reported percentage is the rounded quotient; it is negative
\* exactly when recompression increased the size by more than half a percent of
\* the original size, a smaller increase being reported as 0.
C5_RoundedPercentage ==
    \A r \in DOMAIN req :
        req[r].pc = "resolved" =>
            /\ IsRounded(Reported(r), OriginalSize(r), RecompressedSize(r))
            /\ Examples(r)
            /\ Reported(r) < 0
                  <=> 200 * (RecompressedSize(r) - OriginalSize(r)) > OriginalSize(r)
            /\ (RecompressedSize(r) > OriginalSize(r) /\ Reported(r) >= 0)
                  => Reported(r) = 0

\* the documented example of a recompression that increased the size
C5_Witness ==
    /\ req[1].pc = "resolved"
    /\ OriginalSize(1) = 750 /\ RecompressedSize(1) = 1000
    /\ Reported(1) = -33

----------------------------------------------------------------------------
(* Properties of construction and initialize(), under SpecApp *)

Range(s) == { s[i] : i \in 1..Len(s) }

UnknownRequested ==
    IF options.given THEN Range(options.browser) \ Range(cfgBrowsers) ELSE {}

\* C6: each suite's list becomes its ids that are both in the configuration and
\* requested (B_config /\ B_cli applied to it), in its order; requested ids the
\* configuration does not have give exactly one warning, made of those ids and of
\* the configuration's, and none otherwise; they are in no suite's list at any
\* time, and the test loading still ends ready with them.
C6_BrowserSelection ==
    /\ [](/\ Len(warnings) <= 1
          /\ warnings # <<>> <=> UnknownRequested # {}
          /\ warnings # <<>> =>
                /\ Range(warnings[1].unknown) = UnknownRequested
                /\ warnings[1].known = cfgBrowsers
          /\ \A s \in TopLevelSuites : Range(suites[s]) \cap UnknownRequested = {}
          /\ (ini.pc = "ready" /\ options.given) =>
                \A s \in TopLevelSuites :
                    /\ Range(suites[s]) \subseteq
                          Range(cfgBrowsers) \cap Range(options.browser)
                    /\ NoDup(suites[s]))
    /\ [][(ReadTestsDone(TRUE) /\ options.given) =>
              /\ ini'.pc = "ready"
              /\ \A s \in TopLevelSuites :
                    suites'[s] = SelectSeq(suites[s],
                                           LAMBDA x : /\ InSeq(x, cfgBrowsers)
                                                      /\ InSeq(x, options.browser))]_vars

\* a ready App that was asked for an unknown id and for a known one
C6_Witness ==
    /\ ini.pc = "ready"
    /\ warnings # <<>>
    /\ \E s \in TopLevelSuites : suites[s] # <<>>
    /\ \E s \in TopLevelSuites : Len(suites[s]) < Len(cfgBrowsers)

RecreateDone ==
    \/ ini.pc \in {"readTests", "ready"}
    \/ ini.pc = "failed" /\ ini.error = <<"readTests", "">>

\* C7: removeTree is called on a directory iff fs.exists found it; no makeDirectory
\* is called before both removals are over, every exists and removeTree call
\* coming before every makeDirectory call, on directories that are then absent;
\* the recreation is over only with both directories present and empty.
C7_Recreate ==
    /\ [](/\ (\E d \in WsDirs : ini.mk[d] # "none")
                => \A e \in WsDirs : ini.rm[e] = "done"
          /\ \A d \in WsDirs : ini.mk[d] = "makeDirectory" => ws[d] = "absent"
          /\ \A i, j \in 1..Len(ops) :
                (ops[i][1] = "makeDirectory" /\ ops[j][1] \in {"exists", "removeTree"})
                    => j < i
          /\ RecreateDone => \A d \in WsDirs : ws[d] = "empty")
    /\ [][\A d \in WsDirs :
            ExistsDone(d) => (InSeq(<<"removeTree", d>>, ops') <=> ws[d] # "absent")]_vars

\* the recreation is over, currentDir was removed, diffDir did not exist
C7_Witness ==
    /\ ini.pc = "readTests"
    /\ InSeq(<<"removeTree", "currentDir">>, ops)
    /\ ~InSeq(<<"removeTree", "diffDir">>, ops)

\* C8: gemini.readTests is called only with both directories made; once a removal
\* or a creation has failed, initialize() is rejected with the error of a failed
\* step, readTests is not called and no tree is built; no call is made twice.
C8_InitializeOrder ==
    /\ InSeq(<<"readTests", "">>, ops) =>
          \A d \in WsDirs : ini.mk[d] = "done" /\ ini.rm[d] = "done" /\ ws[d] = "empty"
    /\ (\E d \in WsDirs : ini.rm[d] = "failed" \/ ini.mk[d] = "failed") =>
          /\ ini.pc = "failed"
          /\ \E d \in WsDirs :
                \/ ini.rm[d] = "failed" /\ ini.error = <<"removeTree", d>>
                \/ ini.mk[d] = "failed" /\ ini.error = <<"makeDirectory", d>>
          /\ ~InSeq(<<"readTests", "">>, ops)
          /\ tests = Unloaded
    /\ NoDup(ops)
    /\ tests.loaded => ini.pc = "ready"

\* initialize() rejected by the creation of diffDir, currentDir being made
C8_Witness ==
    /\ ini.pc = "failed"
    /\ ini.mk["diffDir"] = "failed"
    /\ ini.mk["currentDir"] = "done"
    /\ ini.error = <<"makeDirectory", "diffDir">>

----------------------------------------------------------------------------
(* Runs and the failed-test index, under SpecRun *)

\* an initialized App with no reference image yet, before its first run
InitRun ==
    /\ Init
    /\ refSize = [p \in RefPaths |-> 0]

NextRun ==
    \/ \E specificTests \in Scopes : run(specificTests)
    \/ RunDone
    \/ \E t \in Tests : Reports(t) /\ addFailedTest(t)
    \/ \E t \in NoRefTests : Reports(t) /\ addNoReferenceTest(t)
    \/ \E r \in DOMAIN req, d \in Tests : updateReferenceImage(r, d)
    \/ \E r \in DOMAIN req, ok \in BOOLEAN : MakeTreeDone(r, ok)
    \/ \E r \in DOMAIN req : IsFileDone(r)
    \/ \E r \in DOMAIN req, ok \in BOOLEAN : RemoveDone(r, ok)
    \/ \E r \in DOMAIN req, ok \in BOOLEAN, size \in Sizes : OptipngDone(r, ok, size)
    \/ \E r \in DOMAIN req, ok \in BOOLEAN, now \in Times : CompareSizeDone(r, ok, now)

SpecRun == InitRun /\ [][NextRun]_vars

\* C11: when a new run() begins, the failures recorded before it are no longer in
\* the failed-test index: right after run() no descriptor is found in the index, so
\* an updateReferenceImage called before the new run reports a failure is rejected
\* as not found.
C11_IndexClearedByRun ==
    [][\A specificTests \in Scopes :
          run(specificTests) =>
              /\ failedTests' = {}
              /\ \A d \in Tests : ~IndexHas(failedTests', d)]_vars

----------------------------------------------------------------------------
(* Accepts one after the other, each call with its own promise, under SpecSerial *)

Calls == 1..MaxCalls

\* an initialized App after a run that reported one failure
InitSerial ==
    /\ \E t \in Tests : failedTests = {t}
    /\ refSize \in [RefPaths -> 0..MaxSize]
    /\ dirs = UNION { TreeOf(dirname(p)) : p \in { q \in RefPaths : refSize[q] # 0 } }
    /\ curSize = [p \in CurPaths |-> IF p = <<"tmp", "curr", "c1.png">> THEN 1 ELSE MaxSize]
    /\ req = [r \in Calls |-> Idle]
    /\ options = [given |-> FALSE, browser |-> <<>>]
    /\ cfgBrowsers = <<"b1", "b2">>
    /\ warnings = checkUnknownBrowsers(cfgBrowsers, options)
    /\ ws = [d \in WsDirs |-> "empty"]
    /\ ini = [New EXCEPT !.pc = "ready",
                         !.rm = [d \in WsDirs |-> "done"],
                         !.mk = [d \in WsDirs |-> "done"]]
    /\ ops = << <<"exists", "currentDir">>, <<"exists", "diffDir">>,
                <<"makeDirectory", "currentDir">>, <<"makeDirectory", "diffDir">>,
                <<"readTests", "">> >>
    /\ suites = [s \in TopLevelSuites |-> cfgBrowsers]
    /\ tests = TestsData(suites)
    /\ Quiet

\* the caller's contract: a call is made once every earlier call has settled
Serialized(r) ==
    /\ req[r].pc = "idle"
    /\ \A c \in DOMAIN req : Settled(c) /\ (c < r => req[c].pc # "idle")

NextSerial ==
    \/ \E r \in DOMAIN req, d \in Tests : Serialized(r) /\ updateReferenceImage(r, d)
    \/ \E r \in DOMAIN req, ok \in BOOLEAN : MakeTreeDone(r, ok)
    \/ \E r \in DOMAIN req : IsFileDone(r)
    \/ \E r \in DOMAIN req, ok \in BOOLEAN : RemoveDone(r, ok)
    \/ \E r \in DOMAIN req, ok \in BOOLEAN, size \in Sizes : OptipngDone(r, ok, size)
    \/ \E r \in DOMAIN req, ok \in BOOLEAN, now \in Times : CompareSizeDone(r, ok, now)

SpecSerial == InitSerial /\ [][NextSerial]_vars

\* the request failed at the creation of the tree, at the removal or at the
\* recompression
FailedAtStep(q) ==
    /\ q.pc = "rejected"
    /\ q.error \in {"fsError", "compressionError"}
    /\ q.trace # <<>>
    /\ q.trace[Len(q.trace)] \in {"makeTree", "remove", "optipng"}

\* C12: whatever an earlier failed accept left behind (a part of the directory
\* tree, the old reference removed), every step of a later accept that meets no
\* error of its own goes through: makeTree leaves the whole tree, the removal
\* leaves no file, the recompression puts the capture at the reference path, the
\* comparison finds it there and the request resolves with the reference URL.
C12_SelfHealing ==
    [][\A r \in DOMAIN req :
          LET p == req[r].test.referencePath
          IN  /\ MakeTreeDone(r, TRUE) =>
                    req'[r].pc = "isFile" /\ TreeOf(dirname(p)) \subseteq dirs'
              /\ RemoveDone(r, TRUE) =>
                    req'[r].pc = "optipng" /\ refSize'[p] = 0
              /\ \A size \in Sizes :
                    OptipngDone(r, TRUE, size) =>
                        req'[r].pc = "compareSize" /\ refSize'[p] = size
              /\ \A now \in Times :
                    CompareSizeDone(r, TRUE, now) =>
                        /\ req'[r].pc = "resolved"
                        /\ refSize'[p] # 0
                        /\ req'[r].result = refPathToURL(p, req[r].test.browserId, now)]_vars

\* an accept that failed at one of these steps, then an accept on the same test
\* that resolved, the reference file being there
C12_Witness ==
    \E r1, r2 \in DOMAIN req :
        /\ r1 < r2
        /\ FailedAtStep(req[r1])
        /\ req[r2].pc = "resolved"
        /\ req[r2].test = req[r1].test
        /\ refSize[req[r2].test.referencePath] # 0

\* C18: with accepts made one after the other, whenever a recompression is
\* running (from the moment it is invoked to its exit) there is no file at its
\* destination and the directory of the destination exists, whatever accepts,
\* resolved or rejected, came before.
C18_CleanDestination ==
    \A r \in DOMAIN req :
        req[r].pc = "optipng" =>
            /\ refSize[req[r].test.referencePath] = 0
            /\ ~req[r].destExisted
            /\ dirname(req[r].test.referencePath) \in dirs
            /\ \A o \in DOMAIN req \ {r} : Settled(o)

\* a recompression invoked by the second accept of a test, after the first accept
\* resolved and left its file at the destination
C18_Witness ==
    /\ req[1].pc = "resolved"
    /\ req[2].pc = "optipng"
    /\ req[2].test = req[1].test
    /\ req[2].refExists
    /\ req[2].trace = <<"makeTree", "isFile", "remove", "optipng">>

----------------------------------------------------------------------------
(* The URLs of the staged files, under SpecURL *)

NextURL ==
    \/ \E p \in RefPaths, b \in BrowserIds, now \in Times : RefPathToURLCall(p, b, now)
    \/ \E p \in CurPaths, now \in Times : CurrentPathToURLCall(p, now)
    \/ \E p \in DiffPaths, now \in Times : DiffPathToURLCall(p, now)

SpecURL == Init /\ [][NextURL]_vars

Stamped(c) == c.fn \in {"refPathToURL", "currentPathToURL"}

StartsWith(s, prefix) == Len(prefix) <= Len(s) /\ SubSeq(s, 1, Len(prefix)) = prefix

\* C13: a URL returned by refPathToURL or currentPathToURL ends with '?t=' and the
\* millisecond of the call, so two calls of one of them for the same path at
\* different milliseconds return different URLs; a URL returned by diffPathToURL
\* has no query; the URLs start with /ref/<browserId>, /curr and /diff.
C13_Timestamps ==
    \A i \in 1..Len(urls) :
        LET c == urls[i]
        IN  /\ Stamped(c) => c.url.t = c.now
            /\ ~Stamped(c) => c.url.t = NoURL.t
            /\ c.fn = "refPathToURL" => StartsWith(c.url.path, <<"ref", c.browserId>>)
            /\ c.fn = "currentPathToURL" => StartsWith(c.url.path, <<"curr">>)
            /\ c.fn = "diffPathToURL" => StartsWith(c.url.path, <<"diff">>)
            /\ \A j \in 1..Len(urls) :
                  (/\ Stamped(c)
                   /\ urls[j].fn = c.fn
                   /\ urls[j].fullPath = c.fullPath
                   /\ urls[j].browserId = c.browserId
                   /\ urls[j].now # c.now) => urls[j].url # c.url

\* two calls of refPathToURL for the same file at different milliseconds
C13_Witness ==
    /\ Len(urls) = 2
    /\ urls[1].fn = "refPathToURL" /\ urls[2].fn = "refPathToURL"
    /\ urls[1].fullPath = urls[2].fullPath
    /\ urls[1].browserId = urls[2].browserId
    /\ urls[1].now # urls[2].now
    /\ urls[1].url.path = urls[2].url.path

----------------------------------------------------------------------------
(* Two accepts in flight with no serialization, under SpecRace *)

Racers == {1, 2}

\* an initialized App after a run that reported one failure; the viewer layer
\* passes every accept request on as it comes
InitRace ==
    /\ \E t \in Tests : failedTests = {t}
    /\ refSize \in [RefPaths -> 0..MaxSize]
    /\ dirs = UNION { TreeOf(dirname(p)) : p \in { q \in RefPaths : refSize[q] # 0 } }
    /\ curSize = [p \in CurPaths |-> IF p = <<"tmp", "curr", "c1.png">> THEN 1 ELSE MaxSize]
    /\ req = [r \in Racers |-> Idle]
    /\ options = [given |-> FALSE, browser |-> <<>>]
    /\ cfgBrowsers = <<"b1", "b2">>
    /\ warnings = checkUnknownBrowsers(cfgBrowsers, options)
    /\ ws = [d \in WsDirs |-> "empty"]
    /\ ini = [New EXCEPT !.pc = "ready",
                         !.rm = [d \in WsDirs |-> "done"],
                         !.mk = [d \in WsDirs |-> "done"]]
    /\ ops = << <<"exists", "currentDir">>, <<"exists", "diffDir">>,
                <<"makeDirectory", "currentDir">>, <<"makeDirectory", "diffDir">>,
                <<"readTests", "">> >>
    /\ suites = [s \in TopLevelSuites |-> cfgBrowsers]
    /\ tests = TestsData(suites)
    /\ Quiet

NextRace ==
    \/ \E r \in DOMAIN req, d \in Tests : req[r].pc = "idle" /\ updateReferenceImage(r, d)
    \/ \E r \in DOMAIN req, ok \in BOOLEAN : MakeTreeDone(r, ok)
    \/ \E r \in DOMAIN req : IsFileDone(r)
    \/ \E r \in DOMAIN req, ok \in BOOLEAN : RemoveDone(r, ok)
    \/ \E r \in DOMAIN req, ok \in BOOLEAN, size \in Sizes : OptipngDone(r, ok, size)
    \/ \E r \in DOMAIN req, ok \in BOOLEAN, now \in Times : CompareSizeDone(r, ok, now)

SpecRace == InitRace /\ [][NextRace]_vars

\* the removal is pending on a file that is gone, or the recompression is running
\* on a destination that is there
Raced(r) ==
    LET p == req[r].test.referencePath
    IN  \/ req[r].pc = "remove" /\ refSize[p] = 0
        \/ req[r].pc = "optipng" /\ refSize[p] # 0

\* C14: with two accepts of one test key in flight and no serialization, a request
\* can find itself removing a file that is gone or recompressing onto a
\* destination that is there; this happens only through the steps of the other
\* request on the same path (its removal, its recompression), and the request
\* then fails: the removal with the filesystem error, the recompression with the
\* compression error and nothing written.
C14_RacingAccepts ==
    /\ [](\A r \in DOMAIN req :
            Raced(r) =>
                \E o \in DOMAIN req \ {r} :
                    /\ req[o].test.referencePath = req[r].test.referencePath
                    /\ IF req[r].pc = "remove" THEN InSeq("remove", req[o].trace)
                       ELSE InSeq("compareSize", req[o].trace))
    /\ [][\A r \in DOMAIN req, ok \in BOOLEAN :
            /\ (Raced(r) /\ RemoveDone(r, ok)) =>
                    req'[r].pc = "rejected" /\ req'[r].error = "fsError"
            /\ \A size \in Sizes :
                  (Raced(r) /\ OptipngDone(r, ok, size)) =>
                      /\ req'[r].pc = "rejected"
                      /\ req'[r].error = "compressionError"
                      /\ refSize' = refSize]_vars

\* one request failed removing the reference that the other had removed, the
\* other having gone on to its recompression
C14_Witness ==
    \E r, o \in DOMAIN req :
        /\ r # o
        /\ req[r].pc = "rejected" /\ req[r].error = "fsError"
        /\ req[r].trace = <<"makeTree", "isFile", "remove">>
        /\ req[o].test = req[r].test
        /\ InSeq("remove", req[o].trace)
        /\ req[o].pc = "optipng"

----------------------------------------------------------------------------
(* The events sent to the viewers, under SpecEvents *)

NextEvents ==
    \/ \E c \in Conns : addClient(c)
    \/ \E c \in Conns : Disconnect(c)
    \/ \E e \in EventNames : sendClientEvent(e)

SpecEvents == InitRun /\ [][NextEvents]_vars

\* the events emitted after the connection was added, up to the n-th, in order
EmittedSince(c, n) ==
    [i \in 1..(n - conns[c].since) |-> <<conns[c].since + i, emitted[conns[c].since + i]>>]

----------------------------------------------------------------------------
(* The test tree, under SpecApp *)

\* C17: the tree getTests() returns exists only once initialize() is over and is
\* the tree of the suites as the filtering left them: with ids requested on
\* invocation every suite of the tree lists only requested ids, and with none
\* requested the suites' lists are those gemini.readTests gave.
C17_FilteredTree ==
    /\ [](getTests.loaded =>
            /\ ini.pc = "ready"
            /\ \A s \in TopLevelSuites :
                  /\ getTests.suites[s] = suites[s]
                  /\ options.given =>
                        Range(getTests.suites[s]) \subseteq Range(options.browser))
    /\ [][ReadTestsDone(TRUE) =>
              /\ getTests'.loaded
              /\ ~options.given =>
                    \A s \in TopLevelSuites : getTests'.suites[s] = suites[s]
              /\ options.given =>
                    \A s \in TopLevelSuites :
                        getTests'.suites[s] = filterBrowsers(suites[s], options.browser)]_vars

\* a tree loaded under a selection that keeps one browser of a configuration of
\* two: a suite of the tree lists that browser only
C17_Witness ==
    /\ getTests.loaded
    /\ options.given
    /\ Len(cfgBrowsers) = 2
    /\ \E s \in TopLevelSuites : Len(getTests.suites[s]) = 1
    /\ \A s \in TopLevelSuites : Range(getTests.suites[s]) \subseteq Range(options.browser)
    /\ Cardinality(Range(options.browser) \cap Range(cfgBrowsers)) = 1

----------------------------------------------------------------------------
(* Accept requests whose descriptor does not carry the stored paths, under *)
(* SpecForged                                                              *)

\* the entry stored under the key of d
Stored(d) == IndexFind(failedTests, d)

\* d has the key of a stored entry and other path fields than the entry
Forged(d) ==
    /\ IndexHas(failedTests, d)
    /\ d.referencePath # Stored(d).referencePath
    /\ d.currentPath # Stored(d).currentPath

\* the viewer layer sends only such descriptors, one accept at a time
NextForged ==
    \/ \E r \in DOMAIN req, d \in Tests :
          Serialized(r) /\ Forged(d) /\ updateReferenceImage(r, d)
    \/ \E r \in DOMAIN req, ok \in BOOLEAN : MakeTreeDone(r, ok)
    \/ \E r \in DOMAIN req : IsFileDone(r)
    \/ \E r \in DOMAIN req, ok \in BOOLEAN : RemoveDone(r, ok)
    \/ \E r \in DOMAIN req, ok \in BOOLEAN, size \in Sizes : OptipngDone(r, ok, size)
    \/ \E r \in DOMAIN req, ok \in BOOLEAN, now \in Times : CompareSizeDone(r, ok, now)

SpecForged == InitSerial /\ [][NextForged]_vars

\* C19: two descriptors with the same suite path, state name and browser id cause
\* the same step of updateReferenceImage whatever their referencePath and
\* currentPath; the request works on the stored entry: the directories made are
\* those of the entry's referencePath, the only file removed or written is the
\* one at that path, the rate is that of the entry's two files, and the URL
\* returned is the entry's reference URL.
C19_StoredPathsOnly ==
    /\ [](\A r \in DOMAIN req :
            req[r].test # NoTest =>
                /\ req[r].test \in failedTests
                /\ req[r].pc = "resolved" =>
                      /\ req[r].result.path =
                            refPathToURL(req[r].test.referencePath,
                                         req[r].test.browserId, 0).path
                      /\ req[r].log[1].path = req[r].test.referencePath)
    /\ [][\A r \in DOMAIN req :
            /\ \A d1, d2 \in Tests :
                  (KeyOf(d1) = KeyOf(d2) /\ updateReferenceImage(r, d1))
                      => updateReferenceImage(r, d2)
            /\ req'[r] # req[r] =>
                  LET e == IF req[r].test = NoTest THEN req'[r].test ELSE req[r].test
                  IN  /\ dirs' \ dirs \subseteq TreeOf(dirname(e.referencePath))
                      /\ \A p \in RefPaths :
                            refSize'[p] # refSize[p] => p = e.referencePath
                      /\ curSize' = curSize]_vars

\* an accept asked for with a descriptor naming other paths has resolved: the file
\* is at the stored entry's reference path, and nothing was made at the other
\* path, which stays without file and without directory
C19_Witness ==
    /\ req[1].pc = "resolved"
    /\ refSize[req[1].test.referencePath] # 0
    /\ \A p \in RefPaths \ {req[1].test.referencePath} :
          refSize[p] = 0 /\ dirname(p) \notin dirs

====
